---- MODULE Spec2Model ----
(***************************************************************************)
(* Triage pipeline of generate_sources (agent.py, scanner.py,              *)
(* deployment_parser.py, analyze.py).                                       *)
(*                                                                         *)
(* Python strings that the code inspects character by character (paths,    *)
(* fragments, tier responses, code contexts) are sequences of one-character*)
(* strings.  Optional[T] values are sequences of length at most one:       *)
(* Absent is None, Present(x) is the value x.                               *)
(***************************************************************************)
EXTENDS Integers, Sequences, FiniteSets, TLC

\* ------------------------------------------------------------------ bounds
MaxFindings == 3
MaxQuota == 2

\* ------------------------------------------------------- Optional[T], str
Absent == <<>>
Present(x) == <<x>>

Whitespace == {" ", "\n", "\t"}
LowerLetters == <<"a","b","c","d","e","f","g","h","i","j","k","l","m",
                  "n","o","p","q","r","s","t","u","v","w","x","y","z">>
UpperLetters == <<"A","B","C","D","E","F","G","H","I","J","K","L","M",
                  "N","O","P","Q","R","S","T","U","V","W","X","Y","Z">>

\* str.upper()
UpperChar(c) ==
    IF \E k \in DOMAIN LowerLetters : LowerLetters[k] = c
    THEN UpperLetters[CHOOSE k \in DOMAIN LowerLetters : LowerLetters[k] = c]
    ELSE c
Upper(s) == [k \in DOMAIN s |-> UpperChar(s[k])]

\* str.lower()
LowerChar(c) ==
    IF \E k \in DOMAIN UpperLetters : UpperLetters[k] = c
    THEN LowerLetters[CHOOSE k \in DOMAIN UpperLetters : UpperLetters[k] = c]
    ELSE c
Lower(s) == [k \in DOMAIN s |-> LowerChar(s[k])]

\* str.strip(): leading and trailing whitespace removed
RECURSIVE LStrip(_)
LStrip(s) == IF s # <<>> /\ Head(s) \in Whitespace THEN LStrip(Tail(s)) ELSE s
RECURSIVE RStrip(_)
RStrip(s) ==
    IF s # <<>> /\ s[Len(s)] \in Whitespace THEN RStrip(SubSeq(s, 1, Len(s) - 1)) ELSE s
Strip(s) == RStrip(LStrip(s))

\* sub in s
Contains(s, sub) ==
    \E k \in 0..(Len(s) - Len(sub)) : SubSeq(s, k + 1, k + Len(sub)) = sub

\* s.startswith(prefix)
StartsWith(s, prefix) ==
    Len(prefix) <= Len(s) /\ SubSeq(s, 1, Len(prefix)) = prefix

\* ------------------------------------------------------------- RiskLevel
CRITICAL == "critical"
HIGH == "high"
MEDIUM == "medium"
LOW == "low"
INFO == "info"
RiskLevel == {CRITICAL, HIGH, MEDIUM, LOW, INFO}

\* ------------------------------------------------------ tier vocabulary
REAL == <<"R","E","A","L">>
FALSE_POSITIVE == <<"F","A","L","S","E","_","P","O","S","I","T","I","V","E">>
FALSE_WORD == <<"F","A","L","S","E">>

\* ------------------------------------------------------------ the inputs
\* AstGrepFinding: the fields the pipeline reads.  The k-th Finding of a run
\* lies at line k, alternately in a file of a deployed service and outside.
PathInService == <<"a","/","u">>
PathOutside == <<"l","/","y">>
FindingAt(k) ==
    [file_path |-> IF k % 2 = 1 THEN PathInService ELSE PathOutside,
     line_number |-> k]

\* what code_reader returns: None, an empty string, or text
CodeText == <<"d","e","f">>
CodeContexts == {Absent, Present(<<>>), Present(CodeText)}

\* what the fast tier does: raises, or answers with a string
FastRaises == [raised |-> TRUE, output |-> <<>>]
FastAnswers(o) == [raised |-> FALSE, output |-> o]
FastOutcomes == {FastRaises, FastAnswers(REAL), FastAnswers(FALSE_POSITIVE)}

\* what the deep tier does: raises, or returns a FunctionAnalysis of some risk
DeepRaises == [raised |-> TRUE, risk_level |-> INFO]
DeepReturns(r) == [raised |-> FALSE, risk_level |-> r]
DeepOutcomes == {DeepRaises, DeepReturns(HIGH), DeepReturns(INFO)}

\* (variant: `if code_context is None`)
ContextUnreadableNoneOnly(code_context) == code_context = Absent
\* not code_context
ContextUnreadable(code_context) ==
    code_context = Absent \/ code_context[1] = <<>>

\* One environment per Finding: the reader's and the tiers' behaviour when
\* called for it.  Behaviour of a tier the code never reaches is fixed, and a
\* failing fast tier is followed by a deep tier that fails or returns HIGH.
Environments ==
    {e \in [code_context : CodeContexts, fast : FastOutcomes, deep : DeepOutcomes] :
        /\ e.code_context # Present(CodeText) =>
              e.fast = FastAnswers(REAL) /\ e.deep = DeepReturns(HIGH)
        /\ e.fast = FastAnswers(FALSE_POSITIVE) => e.deep = DeepReturns(HIGH)
        /\ e.fast = FastRaises => e.deep # DeepReturns(INFO)}

\* max_real_handlers: int | None
QuotaSettings == {Absent} \cup {Present(n) : n \in 0..MaxQuota}

VARIABLES findings, max_real_handlers, env, batch, stream, prioritized,
          scan, resolve, assemble, unit

vars == <<findings, max_real_handlers, env, batch, stream, prioritized,
          scan, resolve, assemble, unit>>
\* the state of the stages that a pipeline run leaves alone
stages == <<scan, resolve, assemble, unit>>
\* a stage that has not been entered
Idle == [pc |-> "idle"]

\* ------------------------------------------------------------- the tiers
\* fast_check_false_positive: True iff the answer holds FALSE_POSITIVE or FALSE;
\* an exception of the tier is swallowed and gives False
\* (variant: the except branch returns True)
fast_check_false_positiveFailClosed(fast) ==
    IF fast.raised THEN TRUE
    ELSE LET response == Upper(Strip(fast.output))
         IN  Contains(response, FALSE_POSITIVE) \/ Contains(response, FALSE_WORD)
\* (variant: looks for "FALSE POSITIVE", with a space)
fast_check_false_positiveSpaced(fast) ==
    IF fast.raised THEN FALSE
    ELSE LET response == Upper(Strip(fast.output))
         IN  Contains(response, <<"F","A","L","S","E"," ","P","O","S","I","T","I","V","E">>)
fast_check_false_positive(fast) ==
    IF fast.raised THEN FALSE
    ELSE LET response == Upper(Strip(fast.output))
         IN  Contains(response, FALSE_POSITIVE) \/ Contains(response, FALSE_WORD)

\* triage_function: the FunctionAnalysis the deep tier returns for a Finding.
\* FunctionAnalysis (models.py) has no deployment_context field and nothing
\* in agent.py sets one.
triage_function(finding, deep) ==
    [location |-> finding, risk_level |-> deep.risk_level]

\* max_real_handlers and real_handler_count >= max_real_handlers
QuotaReached(max, real_handler_count) ==
    max # Absent /\ max[1] # 0 /\ real_handler_count >= max[1]

\* analysis.risk_level != RiskLevel.INFO
\* (variant: every deep result counts as a real handler)
IsRealHandlerAlways(analysis) == TRUE
IsRealHandler(analysis) == analysis.risk_level # INFO

Event(op, idx) == [op |-> op, idx |-> idx]
\* ------------------------------------- DeploymentModelParser (the resolver)
\* s.replace(old, new) for one-character old and new
ReplaceChar(s, old, new) == [k \in DOMAIN s |-> IF s[k] = old THEN new ELSE s[k]]

\* s.strip('/')
RECURSIVE StripSlashes(_)
StripSlashes(s) ==
    IF s # <<>> /\ Head(s) = "/" THEN StripSlashes(Tail(s))
    ELSE IF s # <<>> /\ s[Len(s)] = "/" THEN StripSlashes(SubSeq(s, 1, Len(s) - 1))
    ELSE s

\* s.split('/'): the segments between slashes, empty ones included
RECURSIVE SplitSlash(_, _)
SplitSlash(s, current) ==
    IF s = <<>> THEN <<current>>
    ELSE IF Head(s) = "/" THEN <<current>> \o SplitSlash(Tail(s), <<>>)
    ELSE SplitSlash(Tail(s), Append(current, Head(s)))
path_parts(normalized_path) == SplitSlash(normalized_path, <<>>)

\* file_path.replace('\\', '/').lower()
NormalizePath(file_path) == Lower(ReplaceChar(file_path, "\\", "/"))
\* repo_path.replace('\\', '/').lower().strip('/')
NormalizeRepoPath(repo_path) == StripSlashes(Lower(ReplaceChar(repo_path, "\\", "/")))

\* the three strategies of the matching loop, tried in this order
FragmentMatches(normalized_path, normalized_repo_path) ==
    \/ StartsWith(normalized_path, Append(normalized_repo_path, "/"))
    \/ Contains(normalized_path, <<"/">> \o normalized_repo_path \o <<"/">>)
    \/ \E k \in DOMAIN path_parts(normalized_path) :
          path_parts(normalized_path)[k] = normalized_repo_path

\* best is [service |-> index of matched_service (0: None),
\*          service_name |-> index of the service whose key is matched_service_name,
\*          length |-> best_match_length]
\* the search started below every length, the empty fragment included
NoMatchBelowZero == [service |-> 0, service_name |-> 0, length |-> 0 - 1]
NoMatch == [service |-> 0, service_name |-> 0, length |-> 0]

\* a better match that leaves matched_service_name at the earlier service
MatchedKeepsName(best, service, match_length) ==
    [service |-> service,
     service_name |-> IF best.service_name = 0 THEN service ELSE best.service_name,
     length |-> match_length]

\* best_match_length, matched_service, matched_service_name = ...
Matched(best, service, match_length) ==
    [service |-> service, service_name |-> service, length |-> match_length]

\* the loop with the first match kept, whatever its length
RECURSIVE MatchRepoPathsFirstMatch(_, _, _, _)
MatchRepoPathsFirstMatch(best, service, repo_paths, normalized_path) ==
    IF repo_paths = <<>> THEN best
    ELSE LET normalized_repo_path == NormalizeRepoPath(Head(repo_paths))
             better == /\ FragmentMatches(normalized_path, normalized_repo_path)
                       /\ Len(normalized_repo_path) > 0
                       /\ best.service = 0
         IN  MatchRepoPathsFirstMatch(
                 IF better THEN Matched(best, service, Len(normalized_repo_path)) ELSE best,
                 service, Tail(repo_paths), normalized_path)

\* the loop with match_length >= best_match_length
RECURSIVE MatchRepoPathsLastTie(_, _, _, _)
MatchRepoPathsLastTie(best, service, repo_paths, normalized_path) ==
    IF repo_paths = <<>> THEN best
    ELSE LET normalized_repo_path == NormalizeRepoPath(Head(repo_paths))
             better == /\ FragmentMatches(normalized_path, normalized_repo_path)
                       /\ Len(normalized_repo_path) > 0
                       /\ Len(normalized_repo_path) >= best.length
         IN  MatchRepoPathsLastTie(
                 IF better THEN Matched(best, service, Len(normalized_repo_path)) ELSE best,
                 service, Tail(repo_paths), normalized_path)

\* the loop over one service's repository_paths
RECURSIVE MatchRepoPaths(_, _, _, _)
MatchRepoPaths(best, service, repo_paths, normalized_path) ==
    IF repo_paths = <<>> THEN best
    ELSE LET normalized_repo_path == NormalizeRepoPath(Head(repo_paths))
             better == /\ FragmentMatches(normalized_path, normalized_repo_path)
                       /\ Len(normalized_repo_path) > best.length
         IN  MatchRepoPaths(
                 IF better THEN Matched(best, service, Len(normalized_repo_path)) ELSE best,
                 service, Tail(repo_paths), normalized_path)

\* the loop over self.services.items(), in declaration order
RECURSIVE MatchServices(_, _, _, _)
MatchServices(best, services, from, normalized_path) ==
    IF from > Len(services) THEN best
    ELSE MatchServices(
             MatchRepoPaths(best, from, services[from].repository_paths, normalized_path),
             services, from + 1, normalized_path)

\* a for loop left by break at the first index of `hits`, as an Optional
FirstOf(seq, hits) ==
    IF hits = {} THEN Absent
    ELSE Present(seq[CHOOSE k \in hits : \A j \in hits : k <= j])

\* not x, for an Optional[str]
Falsy(x) == x = Absent \/ x[1] = ""

\* the zone loop with no break: the last zone listing the service wins
trust_zoneLastZone(model, matched_service_name) ==
    LET hits == {k \in DOMAIN model.trust_zones :
                    matched_service_name \in model.trust_zones[k].services}
    IN  IF hits = {} THEN Absent
        ELSE model.trust_zones[CHOOSE k \in hits : \A j \in hits : j <= k].name

\* trust_zone: zone.get('name') of the first zone listing the service
trust_zone(model, matched_service_name) ==
    LET zone == FirstOf(model.trust_zones,
                        {k \in DOMAIN model.trust_zones :
                            matched_service_name \in model.trust_zones[k].services})
    IN  IF zone = Absent THEN Absent ELSE zone[1].name

\* auth_method of the first record sent by the service, and the global
\* user_authentication_method `if not auth_method`
authentication_method(model, matched_service_name) ==
    LET comm == FirstOf(model.communications,
                        {k \in DOMAIN model.communications :
                            model.communications[k].from_service = matched_service_name})
        auth_method == IF comm = Absent THEN Absent ELSE comm[1].auth_method
    IN  IF Falsy(auth_method) THEN model.user_authentication_method ELSE auth_method

\* A deployment model holds services (a sequence, in declaration order, of
\* records with key, name, repository_paths, network_exposure,
\* deployment_target, upstream_services, downstream_services), trust_zones
\* (name, services), communications (from_service, auth_method) and
\* user_authentication_method.
get_deployment_context(model, file_path) ==
    IF model.services = <<>> THEN Absent
    ELSE
    LET normalized_path == NormalizePath(file_path)
        best == MatchServices(NoMatch, model.services, 1, normalized_path)
    IN  IF best.service = 0 THEN Absent
        ELSE
        LET matched_service == model.services[best.service]
            matched_service_name == model.services[best.service_name].key
        IN  Present(
              [service_name |-> IF matched_service.name = Absent
                                THEN matched_service_name
                                ELSE matched_service.name[1],
               trust_zone |-> trust_zone(model, matched_service_name),
               network_exposure |-> matched_service.network_exposure,
               authentication_method |-> authentication_method(model, matched_service_name),
               deployment_target |-> matched_service.deployment_target,
               upstream_services |-> matched_service.upstream_services,
               downstream_services |-> matched_service.downstream_services])

\* the deployment model of the runs: one service owning the fragment "a/"
ApiService ==
    [key |-> "api", name |-> Present("api"), repository_paths |-> << <<"a", "/">> >>,
     network_exposure |-> "Internet-facing", deployment_target |-> Present("ECS"),
     upstream_services |-> <<>>, downstream_services |-> <<"db">>]
RunDeploymentModel ==
    [services |-> <<ApiService>>,
     trust_zones |-> << [name |-> Present("public"), services |-> {"api"}] >>,
     communications |-> << [from_service |-> "api", auth_method |-> Present("mTLS")] >>,
     user_authentication_method |-> Present("OAuth2 JWT")]


\* --------------------------------------------------- triage_all_findings
\* The locals of one call.  i = 0 stands for the loop variable not yet bound
\* (enumerate(findings, 1) binds it at the head of each iteration).  trace is
\* what the call did, in order: the reader and tier calls and the line printed.
BatchStart ==
    [i |-> 0, real_handler_count |-> 0, fast_filtered_count |-> 0,
     analyses |-> <<>>, trace |-> <<>>, pc |-> "loop"]

Log(st, op) == [st EXCEPT !.trace = Append(@, Event(op, st.i))]

\* break at the quota check: the loop is left
\* (variant: continue in place of break)
QuotaBreakContinues(st) == Log(st, "print_quota")
QuotaBreak(st) == [Log(st, "print_quota") EXCEPT !.pc = "summary"]

\* except Exception as e: print, continue
\* (variant: the exception leaves the call)
DeepErrorAborts(st) == [Log(st, "print_error") EXCEPT !.pc = "raised"]
DeepError(st) == Log(st, "print_error")

\* the analysis put at the head of the list
BatchRecordPrepends(st, analysis) ==
    LET s1 == [st EXCEPT !.analyses = <<analysis>> \o @]
    IN  IF IsRealHandler(analysis)
        THEN Log([s1 EXCEPT !.real_handler_count = @ + 1], "print_real")
        ELSE Log(s1, "print_info")

\* only the non-INFO analyses appended
BatchRecordRealOnly(st, analysis) ==
    IF IsRealHandler(analysis)
    THEN Log([st EXCEPT !.analyses = Append(@, analysis),
                        !.real_handler_count = @ + 1], "print_real")
    ELSE Log(st, "print_info")

\* analyses.append(analysis), then the real-handler count and the result line
BatchRecord(st, analysis) ==
    LET s1 == [st EXCEPT !.analyses = Append(@, analysis)]
    IN  IF IsRealHandler(analysis)
        THEN Log([s1 EXCEPT !.real_handler_count = @ + 1], "print_real")
        ELSE Log(s1, "print_info")

\* one iteration of the for loop of triage_all_findings
triage_all_findings_body(st, finding, e, max) ==
    LET s0 == [st EXCEPT !.i = @ + 1]
    IN  IF QuotaReached(max, s0.real_handler_count) THEN QuotaBreak(s0)
        ELSE
        LET s1 == Log(s0, "read")
        IN  IF ContextUnreadable(e.code_context) THEN Log(s1, "print_skip")
            ELSE
            LET s2 == Log(s1, "fast")
            IN  IF fast_check_false_positive(e.fast)
                THEN Log([s2 EXCEPT !.fast_filtered_count = @ + 1], "print_fast_fp")
                ELSE
                LET s3 == Log(s2, "deep")
                IN  IF e.deep.raised THEN DeepError(s3)
                    ELSE BatchRecord(s3, triage_function(finding, e.deep))

\* ---------------------------------------------------- prioritize_findings
\* the ranks counted from the other end
risk_orderLeastFirst(r) ==
    CASE r = CRITICAL -> 4 [] r = HIGH -> 3 [] r = MEDIUM -> 2 [] r = LOW -> 1
      [] r = INFO -> 0

\* risk_order[r]
risk_order(r) ==
    CASE r = CRITICAL -> 0 [] r = HIGH -> 1 [] r = MEDIUM -> 2 [] r = LOW -> 3
      [] r = INFO -> 4

\* an insertion that goes before the entries of equal rank
RECURSIVE InsertByRiskBeforeEqual(_, _)
InsertByRiskBeforeEqual(sorted, a) ==
    IF sorted = <<>> THEN <<a>>
    ELSE IF risk_order(sorted[Len(sorted)].risk_level) < risk_order(a.risk_level)
         THEN Append(sorted, a)
         ELSE Append(InsertByRiskBeforeEqual(SubSeq(sorted, 1, Len(sorted) - 1), a),
                     sorted[Len(sorted)])

\* sorted(analyses, key=risk_order[risk_level]): Python's sort is stable
RECURSIVE InsertByRisk(_, _)
InsertByRisk(sorted, a) ==
    IF sorted = <<>> THEN <<a>>
    ELSE IF risk_order(sorted[Len(sorted)].risk_level) <= risk_order(a.risk_level)
         THEN Append(sorted, a)
         ELSE Append(InsertByRisk(SubSeq(sorted, 1, Len(sorted) - 1), a),
                     sorted[Len(sorted)])
RECURSIVE SortedByRisk(_)
SortedByRisk(analyses) ==
    IF analyses = <<>> THEN <<>>
    ELSE InsertByRisk(SortedByRisk(SubSeq(analyses, 1, Len(analyses) - 1)),
                      analyses[Len(analyses)])

\* the count of the CRITICAL analyses alone
HighPriorityCountCriticalOnly(analyses) ==
    Cardinality({k \in DOMAIN analyses : analyses[k].risk_level = CRITICAL})

\* sum(1 for a in analyses if a.risk_level in [CRITICAL, HIGH])
HighPriorityCount(analyses) ==
    Cardinality({k \in DOMAIN analyses : analyses[k].risk_level \in {CRITICAL, HIGH}})

\* what the summary tier does: raises, or returns a PrioritizedFindings of
\* its own making, of which only the prose is used
SummaryRaises ==
    [raised |-> TRUE, total_functions_analyzed |-> 0, high_priority_count |-> 0,
     findings |-> <<>>, summary |-> "", recommendations |-> <<>>]
SummaryReturns(n, prose) ==
    [raised |-> FALSE, total_functions_analyzed |-> n, high_priority_count |-> n,
     findings |-> [k \in 1..n |-> [location |-> FindingAt(k), risk_level |-> CRITICAL]],
     summary |-> prose, recommendations |-> <<prose>>]
SummaryOutcomes ==
    {SummaryRaises, SummaryReturns(0, "brief"), SummaryReturns(7, "alarming")}

\* the result with the tier's own list and counts passed on
prioritize_findingsAsTierSays(analyses, tier) ==
    [total_functions_analyzed |-> tier.total_functions_analyzed,
     high_priority_count |-> tier.high_priority_count,
     findings |-> tier.findings,
     summary |-> tier.summary,
     recommendations |-> tier.recommendations]

prioritize_findings(analyses, tier) ==
    [total_functions_analyzed |-> Len(analyses),
     high_priority_count |-> HighPriorityCount(analyses),
     findings |-> SortedByRisk(analyses),
     summary |-> tier.summary,
     recommendations |-> tier.recommendations]

\* ----------------------------------------- triage_all_findings_streaming
StreamStart ==
    [i |-> 0, real_handler_count |-> 0, fast_filtered_count |-> 0,
     total_analyzed |-> 0, yielded |-> <<>>, trace |-> <<>>, pc |-> "loop"]

\* total_analyzed += 1, the real-handler count and the result line, then
\* yield analysis
\* (variant: the yield sits inside the non-INFO branch)
StreamRecordRealOnly(st, analysis) ==
    LET s1 == [st EXCEPT !.total_analyzed = @ + 1]
    IN  IF IsRealHandler(analysis)
        THEN Log([s1 EXCEPT !.real_handler_count = @ + 1,
                            !.yielded = Append(@, analysis)], "print_real")
        ELSE Log(s1, "print_info")
StreamRecord(st, analysis) ==
    LET s1 == [st EXCEPT !.total_analyzed = @ + 1,
                         !.yielded = Append(@, analysis)]
    IN  IF IsRealHandler(analysis)
        THEN Log([s1 EXCEPT !.real_handler_count = @ + 1], "print_real")
        ELSE Log(s1, "print_info")

\* one iteration of the for loop of triage_all_findings_streaming
triage_all_findings_streaming_body(st, finding, e, max) ==
    LET s0 == [st EXCEPT !.i = @ + 1]
    IN  IF QuotaReached(max, s0.real_handler_count) THEN QuotaBreak(s0)
        ELSE
        LET s1 == Log(s0, "read")
        IN  IF ContextUnreadable(e.code_context) THEN Log(s1, "print_skip")
            ELSE
            LET s2 == Log(s1, "fast")
            IN  IF fast_check_false_positive(e.fast)
                THEN Log([s2 EXCEPT !.fast_filtered_count = @ + 1], "print_fast_fp")
                ELSE
                LET s3 == Log(s2, "deep")
                IN  IF e.deep.raised THEN DeepError(s3)
                    ELSE StreamRecord(s3, triage_function(finding, e.deep))

\* ---------------------------------------------------------------- actions
\* A call of triage_all_findings and a call of triage_all_findings_streaming
\* on the same Findings, quota and environment; they share no state, and the
\* batch call is run after the streaming call has ended.
Init ==
    /\ \E n \in 0..MaxFindings :
          /\ findings = [k \in 1..n |-> FindingAt(k)]
          /\ env \in [1..n -> Environments]
    /\ max_real_handlers \in QuotaSettings
    /\ batch = BatchStart
    /\ stream = StreamStart
    /\ prioritized = Absent
    /\ scan = Idle /\ resolve = Idle /\ assemble = Idle /\ unit = Idle

Ended(st) == st.pc \in {"done", "raised"}
LoopOver(st) == st.pc = "summary" \/ (st.pc = "loop" /\ st.i = Len(findings))
LastOp(st) == st.trace[Len(st.trace)].op

BatchIterate ==
    /\ Ended(stream)
    /\ batch.pc = "loop"
    /\ batch.i < Len(findings)
    /\ batch' = triage_all_findings_body(batch, findings[batch.i + 1],
                                         env[batch.i + 1], max_real_handlers)
    /\ UNCHANGED <<findings, max_real_handlers, env, stream, prioritized, stages>>

BatchQuotaReached == BatchIterate /\ LastOp(batch') = "print_quota"
BatchUnreadable == BatchIterate /\ LastOp(batch') = "print_skip"
BatchFastFiltered == BatchIterate /\ LastOp(batch') = "print_fast_fp"
BatchRealHandler == BatchIterate /\ LastOp(batch') = "print_real"
BatchDetailedFalsePositive == BatchIterate /\ LastOp(batch') = "print_info"
BatchError == BatchIterate /\ LastOp(batch') = "print_error"

\* after the loop: the summary print reads i, which is unbound when findings
\* is empty; then prioritize_findings, whose tier call is not guarded
BatchSummary ==
    /\ Ended(stream)
    /\ LoopOver(batch)
    /\ \E tier \in SummaryOutcomes :
          IF batch.i = 0 \/ tier.raised
          THEN /\ batch' = [batch EXCEPT !.pc = "raised"]
               /\ prioritized' = prioritized
          ELSE /\ batch' = [batch EXCEPT !.pc = "done"]
               /\ prioritized' = Present(prioritize_findings(batch.analyses, tier))
    /\ UNCHANGED <<findings, max_real_handlers, env, stream, stages>>

StreamIterate ==
    /\ stream.pc = "loop"
    /\ stream.i < Len(findings)
    /\ stream' = triage_all_findings_streaming_body(stream, findings[stream.i + 1],
                                                    env[stream.i + 1], max_real_handlers)
    /\ UNCHANGED <<findings, max_real_handlers, env, batch, prioritized, stages>>

StreamQuotaReached == StreamIterate /\ LastOp(stream') = "print_quota"
StreamUnreadable == StreamIterate /\ LastOp(stream') = "print_skip"
StreamFastFiltered == StreamIterate /\ LastOp(stream') = "print_fast_fp"
StreamRealHandler == StreamIterate /\ LastOp(stream') = "print_real"
StreamDetailedFalsePositive == StreamIterate /\ LastOp(stream') = "print_info"
StreamError == StreamIterate /\ LastOp(stream') = "print_error"

\* after the loop: the final print reads i
StreamSummary ==
    /\ LoopOver(stream)
    /\ stream' = [stream EXCEPT !.pc = IF stream.i = 0 THEN "raised" ELSE "done"]
    /\ UNCHANGED <<findings, max_real_handlers, env, batch, prioritized, stages>>

Next ==
    \/ BatchQuotaReached
    \/ BatchUnreadable
    \/ BatchFastFiltered
    \/ BatchRealHandler
    \/ BatchDetailedFalsePositive
    \/ BatchError
    \/ BatchSummary
    \/ StreamQuotaReached
    \/ StreamUnreadable
    \/ StreamFastFiltered
    \/ StreamRealHandler
    \/ StreamDetailedFalsePositive
    \/ StreamError
    \/ StreamSummary

Spec == Init /\ [][Next]_vars

\* ------------------------------------------------ scan_all and the dedup
MaxRaw == 3

\* str(n) of a line number n >= 0
Digit(d) == <<"0", "1", "2", "3", "4", "5", "6", "7", "8", "9">>[d + 1]
RECURSIVE Str(_)
Str(n) == IF n < 10 THEN <<Digit(n)>> ELSE Append(Str(n \div 10), Digit(n % 10))

\* the fragments of generated, vendored, minified and declaration-only files
skip_patterns == <<
    <<"/", "g", "e", "n", "e", "r", "a", "t", "e", "d", "/">>,
    <<"/", "d", "i", "s", "t", "/">>,
    <<"/", "b", "u", "i", "l", "d", "/">>,
    <<"/", ".", "n", "e", "x", "t", "/">>,
    <<"/", "o", "u", "t", "/">>,
    <<"/", "_", "_", "g", "e", "n", "e", "r", "a", "t", "e", "d", "_", "_", "/">>,
    <<"/", "n", "o", "d", "e", "_", "m", "o", "d", "u", "l", "e", "s", "/">>,
    <<"/", "v", "e", "n", "d", "o", "r", "/">>,
    <<"/", ".", "v", "e", "n", "v", "/">>,
    <<"/", "v", "e", "n", "v", "/">>,
    <<"/", "t", "a", "r", "g", "e", "t", "/">>,
    <<".", "m", "i", "n", ".", "j", "s">>,
    <<".", "m", "i", "n", ".", "c", "s", "s">>,
    <<"-", "m", "i", "n", ".", "j", "s">>,
    <<".", "b", "u", "n", "d", "l", "e", ".", "j", "s">>,
    <<".", "c", "h", "u", "n", "k", ".", "j", "s">>,
    <<"w", "e", "b", "p", "a", "c", "k", ".">>,
    <<"r", "o", "l", "l", "u", "p", ".">>,
    <<"p", "a", "r", "c", "e", "l", ".">>,
    <<".", "d", ".", "t", "s">>>>
GENERATED_WORD == <<"g", "e", "n", "e", "r", "a", "t", "e", "d">>
CODEGEN_WORD == <<"c", "o", "d", "e", "g", "e", "n">>

\* Path(file_path).name: the last component, empty and "." components dropped
PathName(file_path) ==
    LET parts == SplitSlash(file_path, <<>>)
        kept == {k \in DOMAIN parts : parts[k] # <<>> /\ parts[k] # <<".">>}
    IN  IF kept = {} THEN <<>> ELSE parts[CHOOSE k \in kept : \A j \in kept : j <= k]

\* the test against the raw path instead of path_lower
should_skip_fileCaseSensitive(file_path) ==
    \/ \E k \in DOMAIN skip_patterns : Contains(file_path, skip_patterns[k])
    \/ Contains(Lower(PathName(file_path)), GENERATED_WORD)
    \/ Contains(Lower(PathName(file_path)), CODEGEN_WORD)

\* AstGrepScanner._should_skip_file
should_skip_file(file_path) ==
    LET path_lower == Lower(file_path)
        filename == Lower(PathName(file_path))
    IN  \/ \E k \in DOMAIN skip_patterns : Contains(path_lower, skip_patterns[k])
        \/ Contains(filename, GENERATED_WORD)
        \/ Contains(filename, CODEGEN_WORD)

\* the key made of the path alone
location_keyFileOnly(finding) == finding.file_path

\* f"{finding.file_path}:{finding.line_number}"
location_key(finding) == finding.file_path \o <<":">> \o Str(finding.line_number)

\* The raw findings ast-grep reports: a path and a line; a line that is no
\* integer (Absent) makes AstGrepFinding raise, which scan_all reports and skips.
RawPlain == <<"s", "/", "a">>
RawDist == <<"x", "/", "D", "i", "s", "t", "/", "a">>
\* "s/a" at lines 2 and 12, then "s/a1", a path under /Dist/ and a CodeGen file
\* at line 2, and a raw finding whose line is no integer
RawFindings ==
    {[file |-> RawPlain, line |-> Present(n)] : n \in {2, 12}}
        \cup {[file |-> p, line |-> Present(2)] :
                  p \in {<<"s", "/", "a", "1">>, RawDist, <<"s", "/", "C", "o", "d", "e", "G", "e", "n">>}}
        \cup {[file |-> RawPlain, line |-> Absent]}

\* parse_finding on a raw finding whose line is an integer
parse_finding(raw_finding) == [file_path |-> raw_finding.file, line_number |-> raw_finding.line[1]]

\* scan_all's locals, then main's: the scan loop runs over raw_findings, the
\* dedup loop over the list scan_all returned
ScanStart(raw_findings) ==
    [pc |-> "scan", raw_findings |-> raw_findings, at |-> 0,
     all_findings |-> <<>>, skipped_count |-> 0,
     seen_locations |-> {}, unique_findings |-> <<>>, duplicates_removed |-> 0]


\* the variables of a pipeline run, and their values when no run is made
pipeline == <<findings, max_real_handlers, env, batch, stream, prioritized>>
NoRun ==
    /\ findings = <<>> /\ env = <<>> /\ max_real_handlers = Absent
    /\ batch = BatchStart /\ stream = StreamStart /\ prioritized = Absent

\* all sequences over S of length at most n
SeqsUpTo(S, n) == UNION {[1..k -> S] : k \in 0..n}

InitScan ==
    /\ scan \in {ScanStart(raw_findings) : raw_findings \in SeqsUpTo(RawFindings, MaxRaw)}
    /\ resolve = Idle /\ assemble = Idle
    /\ NoRun /\ unit = Idle

\* one iteration of scan_all's inner loop, on raw finding scan.at + 1
ScanIterate ==
    /\ scan.pc = "scan" /\ scan.at < Len(scan.raw_findings)
    /\ LET raw_finding == scan.raw_findings[scan.at + 1]
       IN  IF raw_finding.line = Absent
           THEN scan' = [scan EXCEPT !.at = @ + 1]
           ELSE LET finding == parse_finding(raw_finding)
                IN  IF should_skip_file(finding.file_path)
                    THEN scan' = [scan EXCEPT !.at = @ + 1, !.skipped_count = @ + 1]
                    ELSE scan' = [scan EXCEPT !.at = @ + 1,
                                              !.all_findings = Append(@, finding)]
    /\ UNCHANGED <<pipeline, unit, resolve, assemble>>
ScanParseError == ScanIterate /\ scan'.skipped_count = scan.skipped_count
                              /\ scan'.all_findings = scan.all_findings
ScanSkipped == ScanIterate /\ scan'.skipped_count # scan.skipped_count
ScanAppended == ScanIterate /\ scan'.all_findings # scan.all_findings

\* scan_all returns; main exits on an empty list before the dedup
ScanReturned ==
    /\ scan.pc = "scan" /\ scan.at = Len(scan.raw_findings)
    /\ scan' = [scan EXCEPT !.pc = IF scan.all_findings = <<>> THEN "exit" ELSE "dedup",
                            !.at = 0]
    /\ UNCHANGED <<pipeline, unit, resolve, assemble>>
MainNoFindings == ScanReturned /\ scan'.pc = "exit"
MainFindings == ScanReturned /\ scan'.pc = "dedup"

\* one iteration of main's dedup loop, on finding scan.at + 1 of the scan's list
DedupIterate ==
    /\ scan.pc = "dedup" /\ scan.at < Len(scan.all_findings)
    /\ LET finding == scan.all_findings[scan.at + 1]
       IN  IF location_key(finding) \notin scan.seen_locations
           THEN scan' = [scan EXCEPT !.at = @ + 1,
                                     !.seen_locations = @ \cup {location_key(finding)},
                                     !.unique_findings = Append(@, finding)]
           ELSE scan' = [scan EXCEPT !.at = @ + 1, !.duplicates_removed = @ + 1]
    /\ UNCHANGED <<pipeline, unit, resolve, assemble>>
DedupKept == DedupIterate /\ scan'.duplicates_removed = scan.duplicates_removed
DedupRemoved == DedupIterate /\ scan'.duplicates_removed # scan.duplicates_removed

\* findings = unique_findings
DedupDone ==
    /\ scan.pc = "dedup" /\ scan.at = Len(scan.all_findings)
    /\ scan' = [scan EXCEPT !.pc = "done"]
    /\ UNCHANGED <<pipeline, unit, resolve, assemble>>

NextScan ==
    \/ ScanParseError
    \/ ScanSkipped
    \/ ScanAppended
    \/ MainNoFindings
    \/ MainFindings
    \/ DedupKept
    \/ DedupRemoved
    \/ DedupDone

SpecScan == InitScan /\ [][NextScan]_vars


\* ------------------------------------- get_deployment_context, on its own
MaxFragments == 1
MaxZones == 2
MaxComms == 1

\* repository_paths fragments a model declares
FragApp == <<"a", "p", "p", "/">>
FragAppApi == <<"a", "p", "p", "/", "a", "p", "i", "/">>
FragApiUpper == <<"A", "P", "I">>
FragSlash == <<"/">>
Fragments == {FragApp, FragAppApi, FragApiUpper, FragSlash}
\* paths of findings
PathUsers == <<"a", "p", "p", "/", "a", "p", "i", "/", "u", "s", "e", "r", "s", ".", "p", "y">>
PathAbsolute == <<"/", "r", "/", "a", "p", "p", "/", "x">>
\* and a Windows path, a path outside every fragment, a bare component
FilePaths == {PathUsers, PathAbsolute, <<"A", "p", "p", "\\", "A", "p", "i", "\\", "u">>, <<"l", "i", "b", "/", "y">>, <<"a", "p", "i">>}

\* the two services of the models; "web" has no name of its own
ServiceKeys == {"web", "api"}
ServiceInfo(key, repository_paths) ==
    IF key = "web"
    THEN [key |-> "web", name |-> Absent, repository_paths |-> repository_paths,
          network_exposure |-> "Internet-facing", deployment_target |-> Present("ECS"),
          upstream_services |-> <<>>, downstream_services |-> <<"api">>]
    ELSE [key |-> "api", name |-> Present("API Service"),
          repository_paths |-> repository_paths,
          network_exposure |-> "Internal only", deployment_target |-> Absent,
          upstream_services |-> <<"web">>, downstream_services |-> <<>>]
\* the services dicts: each key at most once, in any declaration order
ServiceDicts ==
    {<<>>}
      \cup {<<ServiceInfo(k, p)>> : k \in ServiceKeys, p \in SeqsUpTo(Fragments, MaxFragments)}
      \cup {<<ServiceInfo(k, p), ServiceInfo(CHOOSE o \in ServiceKeys : o # k, r)>> :
               k \in ServiceKeys, p \in SeqsUpTo(Fragments, MaxFragments),
               r \in SeqsUpTo(Fragments, MaxFragments)}

TrustZones ==
    {[name |-> Present("public"), services |-> {"web"}],
     [name |-> Present("internal"), services |-> {"web", "api"}],
     [name |-> Present("data"), services |-> {"api"}]}
Communications ==
    {[from_service |-> k, auth_method |-> a] :
        k \in ServiceKeys, a \in {Absent, Present(""), Present("mTLS")}}

\* models that differ in their services, and models that differ in their
\* zones, communications and global method
ModelsByServices ==
    {[services |-> s,
      trust_zones |-> << [name |-> Present("public"), services |-> {"web"}],
                         [name |-> Present("internal"), services |-> {"api"}] >>,
      communications |-> << [from_service |-> "web", auth_method |-> Present("mTLS")] >>,
      user_authentication_method |-> Present("OAuth2 JWT")] : s \in ServiceDicts}
ModelsByZones ==
    {[services |-> <<ServiceInfo("web", <<FragApp>>), ServiceInfo("api", <<FragAppApi>>)>>,
      trust_zones |-> z, communications |-> c, user_authentication_method |-> u] :
        z \in SeqsUpTo(TrustZones, MaxZones), c \in SeqsUpTo(Communications, MaxComms),
        u \in {Absent, Present("OAuth2 JWT")}}

InitResolve ==
    /\ \E m \in ModelsByServices \cup ModelsByZones :
          \E f \in IF m \in ModelsByServices THEN FilePaths ELSE {PathUsers, PathAbsolute} :
              resolve = [pc |-> "call", model |-> m, file_path |-> f, context |-> Absent]
    /\ scan = Idle /\ assemble = Idle
    /\ NoRun /\ unit = Idle

\* context = parser.get_deployment_context(test_path)
Resolve ==
    /\ resolve.pc = "call"
    /\ resolve' = [resolve EXCEPT !.pc = "returned",
                                  !.context = get_deployment_context(resolve.model,
                                                                     resolve.file_path)]
    /\ UNCHANGED <<pipeline, unit, scan, assemble>>
ResolveMatched == Resolve /\ resolve'.context # Absent
ResolveNone == Resolve /\ resolve'.context = Absent

NextResolve ==
    \/ ResolveMatched
    \/ ResolveNone

SpecResolve == InitResolve /\ [][NextResolve]_vars


\* ------------------------------------------- prioritize_findings, on its own
MaxAnalyses == 3

\* the analyses a run hands over: one per Finding, in the order of the
\* Findings, each of any risk level
AnalysesLists ==
    UNION {{[k \in 1..n |-> [location |-> FindingAt(k), risk_level |-> levels[k]]] :
               levels \in [1..n -> RiskLevel]} : n \in 0..MaxAnalyses}

InitAssemble ==
    /\ assemble \in {[pc |-> "call", analyses |-> a, tier |-> Absent,
                         prioritized |-> Absent] : a \in AnalysesLists}
    /\ scan = Idle /\ resolve = Idle
    /\ NoRun /\ unit = Idle

\* prioritized = await self.prioritize_findings(analyses)
Assemble ==
    /\ assemble.pc = "call"
    /\ \E tier \in SummaryOutcomes :
          IF tier.raised
          THEN assemble' = [assemble EXCEPT !.pc = "raised", !.tier = Present(tier)]
          ELSE assemble' = [assemble EXCEPT
                               !.pc = "returned", !.tier = Present(tier),
                               !.prioritized =
                                   Present(prioritize_findings(assemble.analyses, tier))]
    /\ UNCHANGED <<pipeline, unit, scan, resolve>>
AssembleReturned == Assemble /\ assemble'.pc = "returned"
AssembleRaised == Assemble /\ assemble'.pc = "raised"

NextAssemble ==
    \/ AssembleReturned
    \/ AssembleRaised

SpecAssemble == InitAssemble /\ [][NextAssemble]_vars


\* ------------------------------------------------------- main, end to end
\* Five raw findings: one under /Dist/, and four in source files, two of them
\* at the same file and line.
ScenarioRaws ==
    {raw \in [1..5 -> RawFindings] :
        /\ \A k \in 1..5 : raw[k].line # Absent
        /\ Cardinality({k \in 1..5 : raw[k].file = RawDist}) = 1
        /\ \A k \in 1..5 : raw[k].file # RawDist => ~should_skip_file(raw[k].file)
        /\ Cardinality({raw[k] : k \in 1..5}) = 4}
\* The tiers' behaviour for the three admitted Findings: the fast tier answers
\* FALSE_POSITIVE for one; the deep tier returns HIGH and MEDIUM for the others.
ScenarioEnvs ==
    {e \in [1..3 -> {[code_context |-> Present(CodeText), fast |-> FastAnswers(FALSE_POSITIVE),
                      deep |-> DeepReturns(HIGH)],
                     [code_context |-> Present(CodeText), fast |-> FastAnswers(REAL),
                      deep |-> DeepReturns(HIGH)],
                     [code_context |-> Present(CodeText), fast |-> FastAnswers(REAL),
                      deep |-> DeepReturns(MEDIUM)]}] :
        /\ \A i, j \in 1..3 : e[i] = e[j] => i = j
        /\ \E k \in 1..3 : e[k].fast = FastAnswers(FALSE_POSITIVE)}

InitMain ==
    /\ scan \in {ScanStart(raw_findings) : raw_findings \in ScenarioRaws}
    /\ env \in ScenarioEnvs
    /\ findings = <<>> /\ max_real_handlers = Absent
    /\ batch = BatchStart /\ stream = StreamStart /\ prioritized = Absent
    /\ resolve = Idle /\ assemble = Idle /\ unit = Idle

\* agent = SecurityTriageAgent(model=args.model, deployment_parser=deployment_parser):
\* __init__(self, model, api_key) takes no deployment_parser, the call raises
\* TypeError and main ends before any triage call
MainAgentRaises ==
    /\ scan.pc = "done"
    /\ scan' = [scan EXCEPT !.pc = "raised"]
    /\ UNCHANGED <<pipeline, unit, resolve, assemble>>

NextMain ==
    \/ ScanSkipped
    \/ ScanAppended
    \/ MainFindings
    \/ DedupKept
    \/ DedupRemoved
    \/ DedupDone
    \/ MainAgentRaises

SpecMain == InitMain /\ [][NextMain]_vars


\* ------------------------------------------- DeploymentModelParser._load
\* What lies at json_path: no file, text that is no JSON, or a JSON document.
\* A document is told by its top-level type and by what its "services" key
\* holds: no such key, null, a non-empty list, a dict whose values are strings,
\* or a dict of service infos (that of RunDeploymentModel).
ModelFiles ==
    {[kind |-> "missing", top |-> "none", services |-> "none"],
     [kind |-> "invalid", top |-> "none", services |-> "none"],
     [kind |-> "json", top |-> "list", services |-> "none"]}
      \cup {[kind |-> "json", top |-> "dict", services |-> s] :
               s \in {"absent", "null", "list", "dict_of_str", "dict"}}

\* __init__ then _load: self.services stays {} unless json.load gave a dict,
\* whose "services" value is then taken as it is
load(file) ==
    [services |-> IF file.kind = "json" /\ file.top = "dict" /\ file.services # "absent"
                  THEN file.services
                  ELSE "empty",
     raised |-> FALSE]

\* get_deployment_context on the parser _load left: a falsy self.services
\* returns None; .items() of a list and .get of a str raise AttributeError
get_deployment_context_of(parser, file_path) ==
    IF parser.services \in {"empty", "null"}
    THEN [raised |-> FALSE, context |-> Absent]
    ELSE IF parser.services \in {"list", "dict_of_str"}
    THEN [raised |-> TRUE, context |-> Absent]
    ELSE [raised |-> FALSE, context |-> get_deployment_context(RunDeploymentModel, file_path)]

InitLoad ==
    /\ resolve \in {[pc |-> "new", file |-> f, file_path |-> p] :
                       f \in ModelFiles, p \in FilePaths \cup {PathInService, PathOutside}}
    /\ scan = Idle /\ assemble = Idle
    /\ NoRun /\ unit = Idle

\* deployment_parser = DeploymentModelParser(args.deployment_model, ...)
Load ==
    /\ resolve.pc = "new"
    /\ resolve' = [pc |-> "loaded", file |-> resolve.file, file_path |-> resolve.file_path,
                   parser |-> load(resolve.file)]
    /\ UNCHANGED <<pipeline, unit, scan, assemble>>
LoadFailed == Load /\ ~(resolve.file.kind = "json" /\ resolve.file.top = "dict")
Loaded == Load /\ resolve.file.kind = "json" /\ resolve.file.top = "dict"

\* a later get_deployment_context(file_path)
Get ==
    /\ resolve.pc = "loaded"
    /\ resolve' = [pc |-> "got", file |-> resolve.file, file_path |-> resolve.file_path,
                   parser |-> resolve.parser,
                   result |-> get_deployment_context_of(resolve.parser, resolve.file_path)]
    /\ UNCHANGED <<pipeline, unit, scan, assemble>>
GetRaised == Get /\ resolve'.result.raised
GetNone == Get /\ ~resolve'.result.raised /\ resolve'.result.context = Absent
GetContext == Get /\ resolve'.result.context # Absent

NextLoad ==
    \/ LoadFailed
    \/ Loaded
    \/ GetRaised
    \/ GetNone
    \/ GetContext

SpecLoad == InitLoad /\ [][NextLoad]_vars

\* ---------------------------------------------------------------------
\* fast_check_false_positive on its own: one call of the fast tier whose
\* answer is a few words, with the except branch for a failed call

MaxWords == 3

\* what the fast tier may write around its verdict; the empty word gives
\* leading, trailing and doubled blanks
Words == {REAL, FALSE_POSITIVE, <<"n", "o", "t">>, <<"f", "a", "l", "s", "e">>, <<>>}

RECURSIVE Join(_)
Join(words) ==
    IF words = <<>> THEN <<>>
    ELSE IF Len(words) = 1 THEN words[1]
    ELSE words[1] \o <<" ">> \o Join(Tail(words))

InitFast ==
    /\ unit \in {[pc |-> "ask", fast |-> f] :
                    f \in {FastRaises} \cup {FastAnswers(Join(w)) : w \in SeqsUpTo(Words, MaxWords)}}
    /\ scan = Idle /\ resolve = Idle /\ assemble = Idle
    /\ NoRun

\* is_false_positive = await self.fast_check_false_positive(finding, code_context)
FastCheck ==
    /\ unit.pc = "ask"
    /\ unit' = [pc |-> "checked", fast |-> unit.fast,
                result |-> fast_check_false_positive(unit.fast)]
    /\ UNCHANGED <<pipeline, scan, resolve, assemble>>
FastFiltered == FastCheck /\ unit'.result
FastPassedOn == FastCheck /\ ~unit'.result

NextFast ==
    \/ FastFiltered
    \/ FastPassedOn

SpecFast == InitFast /\ [][NextFast]_vars

\* ---------------------------------------------------------------------
\* _parse_text_output on its own: the text ast-grep wrote, already split
\* into lines, and the raw records the loop makes of it ('rule' is the same
\* rule_file.stem in every record and is left out)

MaxLines == 3

\* int(match.group(n)) for a run of decimal digits
RECURSIVE int(_)
int(s) ==
    IF s = <<>> THEN 0
    ELSE 10 * int(SubSeq(s, 1, Len(s) - 1))
            + (CHOOSE d \in 0..9 : Digit(d) = s[Len(s)])

\* re.match(r'^(.+?):(\d+):(\d+)', line): the lazy first group ends at the
\* first colon that is followed by digits, a colon and a digit; the last
\* group takes every digit that follows
re_match(line) ==
    LET n == Len(line)
        IsDigits(a, b) == a <= b /\ b <= n /\ \A k \in a..b : \E d \in 0..9 : line[k] = Digit(d)
        splits == {pq \in (2..n) \X (2..n) :
                      /\ pq[1] < pq[2]
                      /\ line[pq[1]] = ":" /\ line[pq[2]] = ":"
                      /\ IsDigits(pq[1] + 1, pq[2] - 1)
                      /\ IsDigits(pq[2] + 1, pq[2] + 1)}
    IN IF splits = {} THEN Absent
       ELSE LET pq == CHOOSE s \in splits : \A t \in splits : s[1] <= t[1]
                r == CHOOSE e \in (pq[2] + 1)..n :
                        IsDigits(pq[2] + 1, e) /\ ~IsDigits(pq[2] + 1, e + 1)
            IN Present([file |-> SubSeq(line, 1, pq[1] - 1),
                        line |-> int(SubSeq(line, pq[1] + 1, pq[2] - 1)),
                        column |-> int(SubSeq(line, pq[2] + 1, r))])

\* the while loop from index i (1-based) with the findings made so far
RECURSIVE parse_text_from(_, _, _)
parse_text_from(lines, i, found) ==
    IF i > Len(lines) THEN found
    ELSE LET match == re_match(Strip(lines[i]))
             has_next == i + 1 <= Len(lines)
             i1 == IF has_next THEN i + 1 ELSE i
             msg_line == IF has_next THEN Strip(lines[i1]) ELSE <<>>
             bar == StartsWith(msg_line, <<"|">>)
             message == IF has_next /\ ~bar THEN msg_line ELSE <<>>
             snippet1 == IF has_next /\ bar THEN Strip(Tail(msg_line)) ELSE <<>>
             more == i1 + 1 <= Len(lines) /\ StartsWith(Strip(lines[i1 + 1]), <<"|">>)
             i2 == IF more THEN i1 + 1 ELSE i1
             code_snippet == IF more THEN Strip(Tail(lines[i2])) ELSE snippet1
         IN IF match = Absent THEN parse_text_from(lines, i + 1, found)
            ELSE parse_text_from(lines, i2 + 1,
                     Append(found, [file |-> match[1].file, line |-> match[1].line,
                                    column |-> match[1].column, message |-> message,
                                    snippet |-> code_snippet]))

parse_text_output(lines) == parse_text_from(lines, 1, <<>>)

InitParse ==
    /\ unit \in {[pc |-> "output", lines |-> l] :
                    l \in SeqsUpTo({<<"a", ":", "1", ":", "2">>,
                                    <<"b", ":", "1", "3", ":", "4">>,
                                    <<"|", " ", "x">>,
                                    <<"m", "s", "g">>}, MaxLines)}
    /\ scan = Idle /\ resolve = Idle /\ assemble = Idle
    /\ NoRun

\* findings = self._parse_text_output(result.stdout, rule_file)
ParseText ==
    /\ unit.pc = "output"
    /\ unit' = [pc |-> "parsed", lines |-> unit.lines,
                findings |-> parse_text_output(unit.lines)]
    /\ UNCHANGED <<pipeline, scan, resolve, assemble>>
ParsedNone == ParseText /\ unit'.findings = <<>>
ParsedSome == ParseText /\ unit'.findings # <<>>

NextParse ==
    \/ ParsedNone
    \/ ParsedSome

SpecParse == InitParse /\ [][NextParse]_vars

\* ======================================================== the claims
\* What a call holds, in one shape for both modes: the loop variable, the
\* counters, the analyses produced so far (the accumulator, or the values
\* yielded) and the trace.
BatchView ==
    [i |-> batch.i, real |-> batch.real_handler_count,
     fast |-> batch.fast_filtered_count, deep |-> Len(batch.analyses),
     results |-> batch.analyses, trace |-> batch.trace, pc |-> batch.pc]
StreamView ==
    [i |-> stream.i, real |-> stream.real_handler_count,
     fast |-> stream.fast_filtered_count, deep |-> stream.total_analyzed,
     results |-> stream.yielded, trace |-> stream.trace, pc |-> stream.pc]

Did(v, op, idx) == \E k \in DOMAIN v.trace : v.trace[k] = Event(op, idx)
Times(v, op, idx) == Cardinality({k \in DOMAIN v.trace : v.trace[k] = Event(op, idx)})
NonInfo(results) == Cardinality({k \in DOMAIN results : results[k].risk_level # INFO})
\* w is v after one iteration of the loop, on Finding w.i
Iterated(v, w) == w.i = v.i + 1
SameCounts(v, w) ==
    v.real = w.real /\ v.fast = w.fast /\ v.deep = w.deep /\ v.results = w.results

\* C1: with max_real_handlers = N for any N >= 0, the number of non-INFO
\* analyses produced never exceeds N, in either mode.
C1_QuotaNeverExceeded ==
    max_real_handlers # Absent =>
        /\ NonInfo(batch.analyses) <= max_real_handlers[1]
        /\ NonInfo(stream.yielded) <= max_real_handlers[1]

\* C2: once the quota is observed as reached at Finding k the call stops:
\* nothing is called for Finding k or a later one, the observation is the
\* last thing the loop does, and the counters, the analyses and the trace
\* never change again.
C2_StoppedAt(v) ==
    \A p \in DOMAIN v.trace :
        v.trace[p].op = "print_quota" =>
            /\ p = Len(v.trace)
            /\ v.i = v.trace[p].idx
            /\ v.pc # "loop"
            /\ \A q \in DOMAIN v.trace :
                  v.trace[q].op \in {"read", "fast", "deep"} =>
                      v.trace[q].idx < v.trace[p].idx
C2_Frozen(v, w) ==
    (v.trace # <<>> /\ v.trace[Len(v.trace)].op = "print_quota") =>
        SameCounts(v, w) /\ w.trace = v.trace /\ w.i = v.i
C2_QuotaStops ==
    /\ [](C2_StoppedAt(BatchView) /\ C2_StoppedAt(StreamView))
    /\ [][C2_Frozen(BatchView, BatchView') /\ C2_Frozen(StreamView, StreamView')]_vars
C2_Witness ==
    /\ Ended(batch) /\ Ended(stream)
    /\ \E k \in 1..(Len(findings) - 1) :
          Did(BatchView, "print_quota", k) /\ Did(StreamView, "print_quota", k)

\* C3: a Finding whose fast-tier answer is the FALSE_POSITIVE verdict never
\* reaches the deep tier; it adds one to the fast-filtered count, nothing to
\* the analyses, and leaves the real-handler count alone.
FalsePositiveVerdict(e) ==
    ~e.fast.raised /\ Upper(Strip(e.fast.output)) = FALSE_POSITIVE
C3_Step(v, w) ==
    (Iterated(v, w) /\ Did(w, "fast", w.i) /\ FalsePositiveVerdict(env[w.i])) =>
        /\ ~Did(w, "deep", w.i)
        /\ w.fast = v.fast + 1
        /\ w.results = v.results /\ w.deep = v.deep /\ w.real = v.real
C3_FalsePositiveSkipsDeep ==
    [][C3_Step(BatchView, BatchView') /\ C3_Step(StreamView, StreamView')]_vars
C3_Witness ==
    \E k \in DOMAIN findings :
        /\ FalsePositiveVerdict(env[k])
        /\ Did(BatchView, "print_fast_fp", k) /\ Did(StreamView, "print_fast_fp", k)

\* C4: on the same Findings, quota and environment the two modes end with
\* the same analyses in the same order (the values yielded are the
\* accumulator before sorting), the same counts, the same calls and the same
\* last Finding.
C4_View(v) == [v EXCEPT !.pc = "ended"]
C4_ModesEquivalent ==
    (Ended(batch) /\ Ended(stream)) => C4_View(BatchView) = C4_View(StreamView)
C4_Witness ==
    /\ Ended(batch) /\ Ended(stream)
    /\ Len(stream.yielded) = 2
    /\ stream.yielded[1].risk_level = INFO
    /\ Did(StreamView, "print_quota", stream.i)
    /\ batch.pc = "done"

\* C5: a deep-tier result is always recorded and counted as deep-analyzed,
\* INFO or not; the real-handler count grows by one exactly when a non-INFO
\* result is recorded and never otherwise.
C5_Step(v, w) ==
    IF Iterated(v, w) /\ Did(w, "deep", w.i) /\ ~env[w.i].deep.raised
    THEN /\ w.results = Append(v.results,
                               [location |-> findings[w.i],
                                risk_level |-> env[w.i].deep.risk_level])
         /\ w.deep = v.deep + 1
         /\ w.real = v.real + (IF env[w.i].deep.risk_level = INFO THEN 0 ELSE 1)
    ELSE w.real = v.real
C5_QuotaCountsNonInfo ==
    [][C5_Step(BatchView, BatchView') /\ C5_Step(StreamView, StreamView')]_vars
C5_Witness ==
    /\ Len(batch.analyses) = 2 /\ batch.real_handler_count = 1
    /\ stream.total_analyzed = 2 /\ stream.real_handler_count = 1
    /\ \E k \in DOMAIN batch.analyses : batch.analyses[k].risk_level = INFO

\* C6: a Finding whose fast-tier call raises is not counted as fast-filtered
\* and is not dropped: the deep tier is called for it, and what the deep
\* tier returns is recorded.
C6_Step(v, w) ==
    (Iterated(v, w) /\ Did(w, "fast", w.i) /\ env[w.i].fast.raised) =>
        /\ w.fast = v.fast
        /\ Did(w, "deep", w.i)
        /\ ~env[w.i].deep.raised => Len(w.results) = Len(v.results) + 1
C6_FastFailureGoesDeep ==
    [][C6_Step(BatchView, BatchView') /\ C6_Step(StreamView, StreamView')]_vars
C6_Witness ==
    \E k \in DOMAIN findings :
        /\ env[k].fast.raised /\ ~env[k].deep.raised
        /\ Did(BatchView, "deep", k) /\ Did(StreamView, "deep", k)
        /\ \E a \in DOMAIN batch.analyses : batch.analyses[a].location = findings[k]

\* C7: a Finding whose deep-tier call raises is given one deep call and no
\* more, adds nothing to the analyses, changes no counter, and leaves the
\* call in its loop, which goes on to the next Finding.
C7_Step(v, w) ==
    (Iterated(v, w) /\ Did(w, "deep", w.i) /\ env[w.i].deep.raised) =>
        /\ SameCounts(v, w)
        /\ w.pc = "loop"
C7_OneDeepCall(v) == \A k \in DOMAIN findings : Times(v, "deep", k) <= 1
C7_DeepFailureSkips ==
    /\ [](C7_OneDeepCall(BatchView) /\ C7_OneDeepCall(StreamView))
    /\ [][C7_Step(BatchView, BatchView') /\ C7_Step(StreamView, StreamView')]_vars
C7_Witness ==
    \E k \in 1..(Len(findings) - 1) :
        /\ env[k].deep.raised
        /\ Did(BatchView, "print_error", k) /\ Did(BatchView, "read", k + 1)
        /\ Did(StreamView, "print_error", k) /\ Did(StreamView, "read", k + 1)

\* C8: a Finding whose code context is absent or empty is skipped: neither
\* tier is called for it, no counter changes, and the call stays in its loop
\* and goes on to the next Finding.
C8_Step(v, w) ==
    (Iterated(v, w) /\ Did(w, "read", w.i)
        /\ env[w.i].code_context \in {Absent, Present(<<>>)}) =>
        /\ ~Did(w, "fast", w.i) /\ ~Did(w, "deep", w.i)
        /\ SameCounts(v, w)
        /\ w.pc = "loop"
C8_UnreadableSkipped ==
    [][C8_Step(BatchView, BatchView') /\ C8_Step(StreamView, StreamView')]_vars
C8_Witness ==
    \E k \in 1..(Len(findings) - 1) :
        /\ env[k].code_context = Present(<<>>)
        /\ Did(BatchView, "print_skip", k) /\ Did(BatchView, "read", k + 1)
        /\ Did(StreamView, "print_skip", k) /\ Did(StreamView, "read", k + 1)

\* C9: at the end of a run the call holds a count of the Findings it skipped
\* as unreadable or lost to a deep-tier failure.  The only such count the
\* summary's counters give is Total scanned - fast-filtered - deep-analyzed.
SkippedOrFailed(v) ==
    Cardinality({k \in DOMAIN findings :
                    Did(v, "print_skip", k) \/ Did(v, "print_error", k)})
C9_Counted(v) == v.i - v.fast - v.deep = SkippedOrFailed(v)
C9_SkippedAreCounted ==
    /\ Ended(batch) => C9_Counted(BatchView)
    /\ Ended(stream) => C9_Counted(StreamView)

\* C10: every analysis recorded or yielded carries the DeploymentContext the
\* resolver returns for its Finding's file_path (absent when the resolver
\* returns absent).
AttachedContext(analysis) ==
    IF "deployment_context" \in DOMAIN analysis
    THEN analysis["deployment_context"]
    ELSE Absent
C10_Carries(results) ==
    \A k \in DOMAIN results :
        AttachedContext(results[k]) =
            get_deployment_context(RunDeploymentModel, results[k].location.file_path)
C10_ContextAttached == C10_Carries(batch.analyses) /\ C10_Carries(stream.yielded)

\* ----------------------------------------------------------- C11, C12
\* the (file_path, line) pair of a Finding
KeyPair(finding) == <<finding.file_path, finding.line_number>>
\* the indices of a list at which a (file_path, line) pair is seen first
FirstSeen(list) ==
    {k \in DOMAIN list : \A j \in 1..(k - 1) : KeyPair(list[j]) # KeyPair(list[k])}
\* sub is the findings of list at the indices idx, in list order
IsSubsequenceAt(sub, list, idx) ==
    /\ Len(sub) = Cardinality(idx)
    /\ \A k \in idx : sub[Cardinality({j \in idx : j <= k})] = list[k]

\* C11: the deduplicated list holds exactly one Finding per distinct
\* (file_path, line) pair, the first one seen with it, in first-seen order,
\* and the removed count is the input length less the number of distinct pairs.
C11_DedupFirstSeen ==
    scan.pc = "done" =>
        /\ IsSubsequenceAt(scan.unique_findings, scan.all_findings,
                           FirstSeen(scan.all_findings))
        /\ scan.duplicates_removed =
              Len(scan.all_findings)
                - Cardinality({KeyPair(scan.all_findings[k]) : k \in DOMAIN scan.all_findings})
\* a list with a repeated location and a same-file other line has been deduplicated
C11_Witness ==
    /\ scan.pc = "done"
    /\ scan.duplicates_removed = 1
    /\ Len(scan.unique_findings) = 2
    /\ scan.unique_findings[1].file_path = scan.unique_findings[2].file_path

\* a path that, compared case-insensitively, holds a denylist fragment, or
\* whose file name holds one of the two generated-file words
Denylisted(file_path) ==
    \/ \E k \in DOMAIN skip_patterns : Contains(Lower(file_path), skip_patterns[k])
    \/ Contains(Lower(PathName(file_path)), GENERATED_WORD)
    \/ Contains(Lower(PathName(file_path)), CODEGEN_WORD)
\* the raw findings the scan loop has gone through, those that parse
ScannedRaw ==
    {k \in DOMAIN scan.raw_findings :
        /\ scan.pc = "scan" => k <= scan.at
        /\ scan.raw_findings[k].line # Absent}
DeniedRaw == {k \in ScannedRaw : Denylisted(scan.raw_findings[k].file)}

\* C12: the denylist is applied before the dedup: a Finding whose path matches
\* a denylist fragment case-insensitively is never in the list scan_all
\* returns nor in the deduplicated list, it is counted in skipped_count and
\* never in duplicates_removed, and every Finding that is not denylisted still
\* has its location in the deduplicated list.
C12_DenylistBeforeDedup ==
    /\ \A k \in DOMAIN scan.all_findings : ~Denylisted(scan.all_findings[k].file_path)
    /\ \A k \in DOMAIN scan.unique_findings : ~Denylisted(scan.unique_findings[k].file_path)
    /\ scan.skipped_count = Cardinality(DeniedRaw)
    /\ scan.pc = "done" =>
          /\ scan.duplicates_removed + Len(scan.unique_findings)
                = Cardinality(ScannedRaw \ DeniedRaw)
          /\ \A k \in ScannedRaw \ DeniedRaw :
                \E u \in DOMAIN scan.unique_findings :
                    KeyPair(scan.unique_findings[u]) = KeyPair(parse_finding(scan.raw_findings[k]))
\* a finding under /Dist/ came first, then one at the same line of a source file
C12_Witness ==
    /\ scan.pc = "done"
    /\ Len(scan.raw_findings) = 2
    /\ scan.raw_findings[1].file = RawDist
    /\ scan.raw_findings[2].line = scan.raw_findings[1].line
    /\ scan.skipped_count = 1
    /\ scan.duplicates_removed = 0
    /\ Len(scan.unique_findings) = 1

\* ----------------------------------------------------------- C13 .. C18
\* the call has returned a DeploymentContext
Resolved == resolve.pc = "returned" /\ resolve.context # Absent
\* service s of the model owns fragment number f, which matches the path
OwnsMatch(s, f) ==
    /\ s \in DOMAIN resolve.model.services
    /\ f \in DOMAIN resolve.model.services[s].repository_paths
    /\ NormalizeRepoPath(resolve.model.services[s].repository_paths[f]) # <<>>
    /\ FragmentMatches(NormalizePath(resolve.file_path),
                       NormalizeRepoPath(resolve.model.services[s].repository_paths[f]))
MatchLength(s, f) == Len(NormalizeRepoPath(resolve.model.services[s].repository_paths[f]))
AllMatches ==
    UNION {{<<s, f>> : f \in {g \in DOMAIN resolve.model.services[s].repository_paths :
                                  OwnsMatch(s, g)}} :
              s \in DOMAIN resolve.model.services}
LongestMatch == {m \in AllMatches : \A o \in AllMatches : MatchLength(o[1], o[2]) <= MatchLength(m[1], m[2])}
\* the name under which service s is reported
DisplayName(s) ==
    IF resolve.model.services[s].name = Absent THEN resolve.model.services[s].key
    ELSE resolve.model.services[s].name[1]
\* the services the returned context names
Named == {s \in DOMAIN resolve.model.services : DisplayName(s) = resolve.context[1].service_name}

\* C13: the returned service owns a fragment that matches the path by one of
\* the three strategies and whose length is the greatest over all matching
\* fragments of all services.
C13_LongestMatchWins ==
    Resolved => \E m \in LongestMatch : m[1] \in Named
\* "app/" and "app/api/" in different services: "app/api/users.py" is the
\* service of "app/api/"
C13_Witness ==
    /\ Resolved
    /\ resolve.file_path = PathUsers
    /\ Len(resolve.model.services) = 2
    /\ resolve.model.services[1].repository_paths = <<FragApp>>
    /\ resolve.model.services[2].repository_paths = <<FragAppApi>>
    /\ Named = {2}

\* the services that own a matching fragment of the greatest length
LongestOwners == {m[1] : m \in LongestMatch}

\* C14: when several services have matching fragments of the same greatest
\* length, the service returned is the one declared first.
C14_TieKeepsFirstDeclared ==
    Resolved => Named = {s \in LongestOwners : \A o \in LongestOwners : s <= o}
\* both services own a longest match, of different fragments; the first is returned
C14_Witness ==
    /\ Resolved
    /\ LongestOwners = {1, 2}
    /\ resolve.model.services[1].repository_paths = <<FragApiUpper>>
    /\ resolve.model.services[2].repository_paths = <<FragApp>>
    /\ Named = {1}

\* C15: a path that matches no fragment of any service (no services, no
\* fragments or only empty ones included) gets absent, and a DeploymentContext
\* is returned only when some fragment matches.
C15_NoMatchIsAbsent ==
    resolve.pc = "returned" => (resolve.context # Absent <=> AllMatches # {})
\* an absolute path, and a service whose only fragment is "/": absent
C15_Witness ==
    /\ resolve.pc = "returned"
    /\ resolve.context = Absent
    /\ resolve.file_path = PathAbsolute
    /\ Len(resolve.model.services) = 1
    /\ resolve.model.services[1].repository_paths = <<FragSlash>>

\* the key of the one service the returned context names
NamedKey == resolve.model.services[CHOOSE s \in Named : TRUE].key
\* the communication records sent by that service, and the zones listing it
RecordsFrom ==
    {k \in DOMAIN resolve.model.communications :
        resolve.model.communications[k].from_service = NamedKey}
ZonesListing ==
    {k \in DOMAIN resolve.model.trust_zones : NamedKey \in resolve.model.trust_zones[k].services}

\* C16: if some communication record has from_service equal to the matched
\* service, authentication_method is the auth_method of the first such record,
\* whatever that value is; only with no such record is it the global
\* user_authentication_method.
C16_FirstRecordWins ==
    Resolved =>
        resolve.context[1].authentication_method =
            IF RecordsFrom # {}
            THEN resolve.model.communications[
                     CHOOSE k \in RecordsFrom : \A j \in RecordsFrom : k <= j].auth_method
            ELSE resolve.model.user_authentication_method

\* C17: trust_zone is the name of the first zone, in declaration order, whose
\* service list contains the matched service, and absent when no zone lists it.
C17_FirstListingZone ==
    Resolved =>
        resolve.context[1].trust_zone =
            IF ZonesListing # {}
            THEN resolve.model.trust_zones[
                     CHOOSE k \in ZonesListing : \A j \in ZonesListing : k <= j].name
            ELSE Absent
\* two zones list the matched service, under different names; the first is reported
C17_Witness ==
    /\ Resolved
    /\ Cardinality(ZonesListing) = 2
    /\ resolve.model.trust_zones[1].name # resolve.model.trust_zones[2].name
    /\ resolve.context[1].trust_zone = resolve.model.trust_zones[1].name

\* the context is, field by field, that of service s of the model
Describes(s) ==
    LET service == resolve.model.services[s]
        context == resolve.context[1]
    IN  /\ context.service_name = DisplayName(s)
        /\ context.network_exposure = service.network_exposure
        /\ context.deployment_target = service.deployment_target
        /\ context.upstream_services = service.upstream_services
        /\ context.downstream_services = service.downstream_services
        /\ context.trust_zone = trust_zone(resolve.model, service.key)
        /\ context.authentication_method = authentication_method(resolve.model, service.key)

\* C18: a returned DeploymentContext describes exactly one service: its seven
\* fields are those of the matched service, the one named in service_name being
\* the one whose zones and communication records were looked up.
C18_OneService ==
    Resolved => \E s \in DOMAIN resolve.model.services : Describes(s)
\* both services match the path and differ in zone and method; the context is
\* that of the longer match
C18_Witness ==
    /\ Resolved
    /\ Cardinality({m[1] : m \in AllMatches}) = 2
    /\ trust_zone(resolve.model, "web") # trust_zone(resolve.model, "api")
    /\ authentication_method(resolve.model, "web") # authentication_method(resolve.model, "api")
    /\ Named = {2}
    /\ Describes(2)

\* ----------------------------------------------------------- C19, C20
\* the fixed order, most severe first, and a level's place in it
SeverityOrder == <<CRITICAL, HIGH, MEDIUM, LOW, INFO>>
Place(level) == CHOOSE k \in DOMAIN SeverityOrder : SeverityOrder[k] = level
\* the list prioritize_findings returned
Ranked == assemble.prioritized[1].findings
\* where analysis number k of the input stands in the returned list
PlaceOf(k) == {p \in DOMAIN Ranked : Ranked[p] = assemble.analyses[k]}

\* C19: the findings of the returned PrioritizedFindings are ordered most
\* severe first under CRITICAL, HIGH, MEDIUM, LOW, INFO: no entry is followed
\* by an entry of strictly higher severity.
C19_MostSevereFirst ==
    assemble.pc = "returned" =>
        /\ Len(Ranked) = Len(assemble.analyses)
        /\ \A i, j \in DOMAIN Ranked :
              i < j => Place(Ranked[i].risk_level) <= Place(Ranked[j].risk_level)
\* an INFO, a LOW and a CRITICAL analysis came in, in that order
C19_Witness ==
    /\ assemble.pc = "returned"
    /\ Len(assemble.analyses) = 3
    /\ assemble.analyses[1].risk_level = INFO
    /\ assemble.analyses[2].risk_level = LOW
    /\ assemble.analyses[3].risk_level = CRITICAL
    /\ Ranked[1] = assemble.analyses[3]

\* C20: two analyses of the same risk_level stand in the returned findings in
\* the order they have in the input list, which is the order of their Findings.
C20_SortIsStable ==
    assemble.pc = "returned" =>
        \A i, j \in DOMAIN assemble.analyses :
            (i < j /\ assemble.analyses[i].risk_level = assemble.analyses[j].risk_level)
                => \E p \in PlaceOf(i) : \E r \in PlaceOf(j) : p < r
\* two HIGH analyses with a CRITICAL one after them
C20_Witness ==
    /\ assemble.pc = "returned"
    /\ Len(assemble.analyses) = 3
    /\ assemble.analyses[1].risk_level = HIGH
    /\ assemble.analyses[2].risk_level = HIGH
    /\ assemble.analyses[3].risk_level = CRITICAL
    /\ Ranked = <<assemble.analyses[3], assemble.analyses[1], assemble.analyses[2]>>

\* ----------------------------------------------------------- C21, C22
\* the PrioritizedFindings the call returned
Returned == assemble.prioritized[1]
\* the input list in another order: p is a permutation of its indices
IndexOrders(n) == {p \in [1..n -> 1..n] : \A i, j \in 1..n : p[i] = p[j] => i = j}
Permuted(analyses, p) == [k \in DOMAIN analyses |-> analyses[p[k]]]
\* the summary tier's outcomes that are answers
TierAnswers == {t \in SummaryOutcomes : ~t.raised}

\* C21: high_priority_count is the number of analyses whose risk_level is
\* CRITICAL or HIGH, and is the same for every permutation of the input list.
C21_HighPriorityCount ==
    assemble.pc = "returned" =>
        /\ Returned.high_priority_count =
              Cardinality({k \in DOMAIN assemble.analyses :
                              assemble.analyses[k].risk_level = CRITICAL
                                  \/ assemble.analyses[k].risk_level = HIGH})
        /\ \A p \in IndexOrders(Len(assemble.analyses)) :
              prioritize_findings(Permuted(assemble.analyses, p),
                                  assemble.tier[1]).high_priority_count
                  = Returned.high_priority_count
\* a HIGH, an INFO and a CRITICAL analysis: the count is 2
C21_Witness ==
    /\ assemble.pc = "returned"
    /\ Len(assemble.analyses) = 3
    /\ assemble.analyses[1].risk_level = HIGH
    /\ assemble.analyses[2].risk_level = INFO
    /\ assemble.analyses[3].risk_level = CRITICAL
    /\ Returned.high_priority_count = 2

\* C22: for the same analyses, whatever the summary tier answers (findings,
\* counts, summary, recommendations), the returned findings list,
\* total_functions_analyzed and high_priority_count are the same; only summary
\* and recommendations are the tier's.
C22_TierCannotInfluence ==
    assemble.pc = "returned" =>
        /\ \A other \in TierAnswers :
              LET second == prioritize_findings(assemble.analyses, other)
              IN  /\ second.findings = Returned.findings
                  /\ second.total_functions_analyzed = Returned.total_functions_analyzed
                  /\ second.high_priority_count = Returned.high_priority_count
                  /\ second.summary = other.summary
                  /\ second.recommendations = other.recommendations
        /\ Returned.summary = assemble.tier[1].summary
        /\ Returned.recommendations = assemble.tier[1].recommendations
        /\ Returned.total_functions_analyzed = Len(assemble.analyses)
\* the tier answered with seven CRITICAL findings of its own; two analyses came in
C22_Witness ==
    /\ assemble.pc = "returned"
    /\ Len(assemble.tier[1].findings) = 7
    /\ assemble.tier[1].high_priority_count = 7
    /\ Len(assemble.analyses) = 2
    /\ Len(Returned.findings) = 2
    /\ Returned.total_functions_analyzed = 2

\* ----------------------------------------------------------- C23
\* main has ended, normally or not
MainEnded == scan.pc \in {"exit", "raised", "reported"}

\* C23: from 5 raw findings with one duplicate (file, line) pair and one
\* denylisted path, the fast tier answering FALSE_POSITIVE for one admitted
\* Finding and the deep tier returning HIGH and MEDIUM for the other two, the
\* run ends with 3 admitted Findings, 1 fast-filtered, 2 deep-analyzed and a
\* PrioritizedFindings of total_functions_analyzed 2, high_priority_count 1 and
\* findings HIGH, MEDIUM.
C23_EndToEnd ==
    MainEnded =>
        /\ Len(scan.unique_findings) = 3
        /\ batch.fast_filtered_count = 1
        /\ Len(batch.analyses) = 2
        /\ prioritized # Absent
        /\ prioritized[1].total_functions_analyzed = 2
        /\ prioritized[1].high_priority_count = 1
        /\ [k \in 1..2 |-> prioritized[1].findings[k].risk_level] = <<HIGH, MEDIUM>>

\* ----------------------------------------------------------- C24
\* the calls of view v were made Finding by Finding, in input order, and for
\* each Finding the fast-tier call came after the read and the deep-tier call
\* after the fast-tier call
CallsInOrder(v) ==
    /\ \A j, k \in DOMAIN v.trace : j < k => v.trace[j].idx <= v.trace[k].idx
    /\ \A k \in DOMAIN v.trace :
          /\ v.trace[k].idx \in DOMAIN findings
          /\ v.trace[k].op = "fast" =>
                \E j \in 1..(k - 1) : v.trace[j] = Event("read", v.trace[k].idx)
          /\ v.trace[k].op = "deep" =>
                \E j \in 1..(k - 1) : v.trace[j] = Event("fast", v.trace[k].idx)
    /\ \A op \in {"read", "fast", "deep"} : \A n \in DOMAIN findings : Times(v, op, n) <= 1
\* the results of view v are analyses of Findings of the input, in input order
ResultsInInputOrder(v) ==
    /\ \A k \in DOMAIN v.results :
          /\ v.results[k].location.line_number \in DOMAIN findings
          /\ v.results[k].location = findings[v.results[k].location.line_number]
    /\ \A j, k \in DOMAIN v.results :
          j < k => v.results[j].location.line_number < v.results[k].location.line_number

\* C24: Findings are evaluated strictly in input order, one at a time; for each
\* the context read precedes the fast-tier call and the deep-tier call follows
\* the fast-tier call; the accumulator and the streamed output are
\* subsequences of the input order; the final sort runs only when the loop of
\* the batch call is over.
C24_OrderWithinRun ==
    /\ CallsInOrder(BatchView) /\ CallsInOrder(StreamView)
    /\ ResultsInInputOrder(BatchView) /\ ResultsInInputOrder(StreamView)
    /\ prioritized # Absent =>
          /\ batch.pc = "done"
          /\ LoopOver([batch EXCEPT !.pc = "loop"]) \/ LastOp(batch) = "print_quota"
          /\ Len(prioritized[1].findings) = Len(batch.analyses)
\* three Findings went through: one stopped at the fast tier, two deep-analyzed
\* and sorted
C24_Witness ==
    /\ prioritized # Absent
    /\ batch.i = 3
    /\ batch.fast_filtered_count = 1
    /\ Len(batch.analyses) = 2
    /\ Len(stream.yielded) = 2

\* ----------------------------------------------------------- C28
\* the Findings for which the deep tier was called and returned, in the batch call
DeepReturned == {n \in DOMAIN findings : Did(BatchView, "deep", n) /\ ~env[n].deep.raised}

\* C28: PrioritizedFindings.findings is a permutation of the analyses the deep
\* tier returned during the run, INFO ones included; total_functions_analyzed
\* is its length and the number of successful deep-tier calls;
\* high_priority_count is at most total_functions_analyzed.
C28_NothingLostOrInvented ==
    prioritized # Absent =>
        LET result == prioritized[1]
        IN  /\ Len(result.findings) = Cardinality(DeepReturned)
            /\ {result.findings[k] : k \in DOMAIN result.findings}
                  = {[location |-> findings[n], risk_level |-> env[n].deep.risk_level] :
                        n \in DeepReturned}
            /\ result.total_functions_analyzed = Len(result.findings)
            /\ result.high_priority_count <= result.total_functions_analyzed
\* an INFO and a HIGH analysis were returned and a deep-tier call failed
C28_Witness ==
    /\ prioritized # Absent
    /\ Len(prioritized[1].findings) = 2
    /\ prioritized[1].findings[1].risk_level = HIGH
    /\ prioritized[1].findings[2].risk_level = INFO
    /\ \E n \in DOMAIN findings : Did(BatchView, "print_error", n)

\* ----------------------------------------------------------- C26, C27
\* the Findings for which view v invoked the context reader
Evaluated(v) == {n \in DOMAIN findings : Did(v, "read", n)}

\* C26: for every list of Findings, the empty one included, every
\* max_real_handlers and every outcome of the reader and the tiers, both calls
\* end without raising, having evaluated each Finding at most once, and the
\* batch call returns a PrioritizedFindings.
C26_EndsWithoutRaising ==
    /\ batch.pc # "raised" /\ stream.pc # "raised"
    /\ \A n \in DOMAIN findings : Times(BatchView, "read", n) <= 1
                                  /\ Times(StreamView, "read", n) <= 1
    /\ batch.pc = "done" => prioritized # Absent

\* C27: the 'Total scanned' printed at the end (the loop variable i) is the
\* number of Findings for which the context reader was invoked, also after a
\* quota stop, and fast-filtered + deep-analyzed never exceeds it.
C27_TotalScannedIsEvaluated ==
    /\ batch.pc = "done" =>
          /\ batch.i = Cardinality(Evaluated(BatchView))
          /\ batch.fast_filtered_count + Len(batch.analyses) <= batch.i
    /\ stream.pc = "done" =>
          /\ stream.i = Cardinality(Evaluated(StreamView))
          /\ stream.fast_filtered_count + stream.total_analyzed <= stream.i

\* ----------------------------------------------------------- C25
\* the file is missing, is no JSON, or is JSON of another shape than a dict
\* whose "services" is a dict of service infos
MissingOrMalformed ==
    ~(resolve.file.kind = "json" /\ resolve.file.top = "dict"
        /\ resolve.file.services \in {"absent", "dict"})

\* C25: constructing the parser on a missing file, on text that is no JSON or
\* on JSON of another shape does not raise and leaves it with no services, and
\* every later get_deployment_context returns absent.
C25_MalformedModelDegrades ==
    /\ resolve.pc \in {"loaded", "got"} => ~resolve.parser.raised
    /\ (resolve.pc \in {"loaded", "got"} /\ MissingOrMalformed) =>
          resolve.parser.services \in {"empty", "null"}
    /\ (resolve.pc = "got" /\ MissingOrMalformed) =>
          ~resolve.result.raised /\ resolve.result.context = Absent

\* ---------------------------------------------------------------------
\* C29: fast_check_false_positive returns True exactly when the trimmed,
\* upper-cased response gives the FALSE_POSITIVE verdict; every other
\* response, a REAL verdict with any wording around it or a failed call,
\* returns False.
GivesFalsePositiveVerdict(fast) ==
    /\ ~fast.raised
    /\ Contains(Upper(Strip(fast.output)), FALSE_POSITIVE)

C29_OnlyFalsePositiveVerdict ==
    unit.pc = "checked" => (unit.result <=> GivesFalsePositiveVerdict(unit.fast))

\* ---------------------------------------------------------------------
\* C30: the line-oriented fallback parser yields exactly one raw record for
\* every output line of the form file:line:column, in order of appearance,
\* with line and column as integers; no location line is lost, also when two
\* location lines are adjacent or a location line is the last line.
LocationLines(lines) ==
    LET IsLocation(l) == re_match(Strip(l)) # Absent
    IN SelectSeq(lines, IsLocation)

C30_OneRecordPerLocationLine ==
    unit.pc = "parsed" =>
        LET locations == LocationLines(unit.lines)
        IN /\ Len(unit.findings) = Len(locations)
           /\ \A k \in 1..Len(locations) :
                  LET at == re_match(Strip(locations[k]))[1]
                  IN /\ unit.findings[k].file = at.file
                     /\ unit.findings[k].line = at.line
                     /\ unit.findings[k].column = at.column

====
